---- MODULE Spec2Model ----
(***************************************************************************)
(* Model of the foveated panorama codec (src/optimizer/optimizer.cpp) and  *)
(* of the rolling-window frame-rate profiler (src/util/timer.hpp).         *)
(*                                                                         *)
(* A cv::Mat is a record [rows, cols, px] with px[r][c] the value of one   *)
(* channel of the pixel at row r, column c (0-based).  All the operations  *)
(* of the codec treat the channels alike, so one channel stands for three. *)
(***************************************************************************)
EXTENDS Integers, Sequences, FiniteSets, TLC

VARIABLES
  image,        \* the caller's panorama (argument of optimizeImage)
  angle,        \* horizontal gaze angle passed to optimizeImage
  vAngle,       \* vertical gaze angle passed to optimizeImage
  opt,          \* the OptimizedImage held by the caller, or NoOpt
  out,          \* the frame returned by the latest extractImage, or NoMat
  firstOut,     \* the frame returned by the first extractImage, or NoMat
  err,          \* the contract violation that ended the program, or "none"
  pc,           \* "start", then "encoded" once optimizeImage has returned,
                \* "constructed" once the caller has built its own opt
  numDecodes,   \* number of extractImage calls made on opt
  tickindex,    \* FramerateProfiler::tickindex
  ticksum,      \* FramerateProfiler::ticksum, in units of 1/TimeDen second
  ticklist,     \* FramerateProfiler::ticklist (int[MAX_SAMPLES]), in seconds
  samplesCollected, \* FramerateProfiler::samplesCollected
  frameStart,   \* FramerateProfiler::frameStart, in units of 1/TimeDen second
  now,          \* the process clock read by Timer::timeInSeconds, same units
  inFrame,      \* TRUE between startFrame and finishFrame
  history       \* every frame time recorded so far, oldest first

codecVars == <<image, angle, vAngle, opt, out, firstOut, err, pc, numDecodes>>
profVars == <<tickindex, ticksum, ticklist, samplesCollected, frameStart, now,
              inFrame, history>>
vars == <<codecVars, profVars>>

----------------------------------------------------------------------------
(* Program constants *)

CROP_ANGLE == 180
H_FOCUS_ANGLE == 30
V_FOCUS_ANGLE == 30
BLUR_FACTOR == 3
MAX_SAMPLES == 100

(* Bounds of the model *)

MaxW == 26          \* widest panorama
MaxH == 13          \* tallest panorama
MaxPattern == 0     \* pixel patterns 0..MaxPattern
AngleStep == 45     \* horizontal gaze angles are multiples of AngleStep
MaxTurn == 4        \* ... from -MaxTurn*AngleStep to MaxTurn*AngleStep
MaxDecodes == 2     \* extractImage calls per OptimizedImage

NoOpt == [none |-> TRUE]
NoMat == [rows |-> 0, cols |-> 0, px |-> <<>>]

----------------------------------------------------------------------------
(* Integer and floating point arithmetic of the C++ code *)

Min(a, b) == IF a < b THEN a ELSE b
Max(a, b) == IF a > b THEN a ELSE b

\* x % n of C++ (n > 0): the remainder has the sign of x.
CRem(x, n) == IF x >= 0 THEN x % n ELSE 0 - ((0 - x) % n)

\* x / n of C++ (n > 0): the quotient truncates toward zero.
CDiv(x, n) == IF x >= 0 THEN x \div n ELSE 0 - ((0 - x) \div n)

constrainAngle(x) ==
  LET r == CRem(x, 360) IN IF r < 0 THEN r + 360 ELSE r

\* clamp that forgets the upper bound.
clamp_NoUpper(x, lo, hi) == Max(lo, x)

clamp(x, lo, hi) == Max(lo, Min(x, hi))

\* The products k * (n / d.0) that IEEE-754 double arithmetic rounds just
\* below the integer k*n/d, for n <= 32 and |k| <= 720 (d = 360: k < 360).
\* The quotient n/d is rounded down and the product does not recover it.
InexactProducts ==
  {<<180, 26, 360>>}
  \cup {<<k, 13, 180>> : k \in {180, 360, 540, 720}}
  \cup {<<k, 26, 180>> : k \in {90, 180, 270, 360, 540, 630, 720}}

\* (int)(k * (n / (double) d)): truncation toward zero of the double product.
DoubleMulTrunc(k, n, d) ==
  LET a == IF k < 0 THEN 0 - k ELSE k
      q == (a * n) \div d
      t == IF <<a, n, d>> \in InexactProducts THEN q - 1 ELSE q
  IN IF k < 0 THEN 0 - t ELSE t

----------------------------------------------------------------------------
(* The image-library primitives used by the codec *)

\* Mat(m, Range::all(), Range(a, b))
ColRange(m, a, b) ==
  [rows |-> m.rows, cols |-> b - a,
   px |-> [r \in 0..(m.rows - 1) |-> [c \in 0..(b - a - 1) |-> m.px[r][c + a]]]]

\* Mat(m, Range(a, b), Range::all())
RowRange(m, a, b) ==
  [rows |-> b - a, cols |-> m.cols,
   px |-> [r \in 0..(b - a - 1) |-> [c \in 0..(m.cols - 1) |-> m.px[r + a][c]]]]

\* A buffer that is allocated and never filled: it keeps stale bytes.
Zeros_Unset(rows, cols) ==
  [rows |-> rows, cols |-> cols,
   px |-> [r \in 0..(rows - 1) |-> [c \in 0..(cols - 1) |-> 205]]]

\* Mat(rows, cols, type) followed by setTo(Scalar(0,0,0))
Zeros(rows, cols) ==
  [rows |-> rows, cols |-> cols,
   px |-> [r \in 0..(rows - 1) |-> [c \in 0..(cols - 1) |-> 0]]]

hconcat2(x, y) ==
  [rows |-> x.rows, cols |-> x.cols + y.cols,
   px |-> [r \in 0..(x.rows - 1) |-> [c \in 0..(x.cols + y.cols - 1) |->
             IF c < x.cols THEN x.px[r][c] ELSE y.px[r][c - x.cols]]]]

hconcat3(x, y, z) == hconcat2(hconcat2(x, y), z)

\* One axis of cv::resize with INTER_LINEAR: destination index i of n samples
\* reads source samples lo and hi of m with weights (den - w)/den and w/den.
Tap(i, n, m) ==
  LET num == (2 * i + 1) * m - n
      den == 2 * n
      s   == IF num < 0 THEN 0 ELSE num \div den
  IN IF num < 0 THEN [lo |-> 0, hi |-> 0, w |-> 0, den |-> den]
     ELSE IF s >= m - 1 THEN [lo |-> m - 1, hi |-> m - 1, w |-> 0, den |-> den]
     ELSE [lo |-> s, hi |-> s + 1, w |-> num % den, den |-> den]

\* cv::resize(src, dst, Size(cols, rows)), bilinear, rounded to nearest.
resize(m, cols, rows) ==
  [rows |-> rows, cols |-> cols,
   px |-> [r \in 0..(rows - 1) |-> [c \in 0..(cols - 1) |->
     LET y == Tap(r, rows, m.rows)
         x == Tap(c, cols, m.cols)
         top == (x.den - x.w) * m.px[y.lo][x.lo] + x.w * m.px[y.lo][x.hi]
         bot == (x.den - x.w) * m.px[y.hi][x.lo] + x.w * m.px[y.hi][x.hi]
         d == x.den * y.den
     IN ((y.den - y.w) * top + y.w * bot + d \div 2) \div d]]]

\* A paste that blends the tile with the surround instead of overwriting it.
copyTo_Blend(dst, tile, row, col) ==
  [rows |-> dst.rows, cols |-> dst.cols,
   px |-> [r \in 0..(dst.rows - 1) |-> [c \in 0..(dst.cols - 1) |->
     IF /\ row <= r /\ r < row + tile.rows
        /\ col <= c /\ c < col + tile.cols
     THEN (tile.px[r - row][c - col] + dst.px[r][c]) \div 2
     ELSE dst.px[r][c]]]]

\* tile.copyTo(view) where view is the rectangle of dst at (row, col) with the
\* dimensions of tile: the write goes through to dst.
copyTo(dst, tile, row, col) ==
  [rows |-> dst.rows, cols |-> dst.cols,
   px |-> [r \in 0..(dst.rows - 1) |-> [c \in 0..(dst.cols - 1) |->
     IF /\ row <= r /\ r < row + tile.rows
        /\ col <= c /\ c < col + tile.cols
     THEN tile.px[r - row][c - col]
     ELSE dst.px[r][c]]]]

----------------------------------------------------------------------------
(* Encoder *)

Fail(e) == [ok |-> FALSE, err |-> e]

\* A wrapped crop that concatenates its two parts in panorama order.
cropHorizontallyWrapped_PartsSwapped(img, leftCol, rightCol) ==
  IF ~(0 <= leftCol /\ leftCol < img.cols) THEN Fail("REQUIRES leftCol")
  ELSE IF ~(0 <= rightCol /\ rightCol < img.cols) THEN Fail("REQUIRES rightCol")
  ELSE IF leftCol < rightCol
    THEN [ok |-> TRUE, mat |-> ColRange(img, leftCol, rightCol)]
  ELSE IF ~(leftCol > rightCol) THEN Fail("ASSERT leftCol > rightCol")
  ELSE [ok |-> TRUE,
        mat |-> hconcat2(ColRange(img, 0, rightCol),
                         ColRange(img, leftCol, img.cols))]

cropHorizontallyWrapped(img, leftCol, rightCol) ==
  IF ~(0 <= leftCol /\ leftCol < img.cols) THEN Fail("REQUIRES leftCol")
  ELSE IF ~(0 <= rightCol /\ rightCol < img.cols) THEN Fail("REQUIRES rightCol")
  ELSE IF leftCol < rightCol
    THEN [ok |-> TRUE, mat |-> ColRange(img, leftCol, rightCol)]
  ELSE IF ~(leftCol > rightCol) THEN Fail("ASSERT leftCol > rightCol")
  ELSE [ok |-> TRUE,
        mat |-> hconcat2(ColRange(img, leftCol, img.cols),
                         ColRange(img, 0, rightCol))]

\* A constructor that stores the two offsets of the tile the wrong way round.
OptimizedImage_Swapped(focused, blurred, focusRow, focusCol, fullSize, leftBuffer) ==
  [focused |-> focused, blurred |-> blurred,
   focusRow |-> focusCol, focusCol |-> focusRow,
   fullSize |-> fullSize, leftBuffer |-> leftBuffer]

\* The six fields stored by the OptimizedImage constructor.
OptimizedImage(focused, blurred, focusRow, focusCol, fullSize, leftBuffer) ==
  [focused |-> focused, blurred |-> blurred,
   focusRow |-> focusRow, focusCol |-> focusCol,
   fullSize |-> fullSize, leftBuffer |-> leftBuffer]

Size(m) == [width |-> m.cols, height |-> m.rows]

optimizeImage(img, hAngle, vAng) ==
  LET a == constrainAngle(hAngle)
      width == img.cols
      height == img.rows
      leftAngle == constrainAngle(a - CDiv(CROP_ANGLE, 2))
      rightAngle == constrainAngle(a + CDiv(CROP_ANGLE, 2))
      leftCol == DoubleMulTrunc(leftAngle, width, 360)
      rightCol == DoubleMulTrunc(rightAngle, width, 360)
      crop == cropHorizontallyWrapped(img, leftCol, rightCol)
      cropped == crop.mat
      focusWidth == DoubleMulTrunc(H_FOCUS_ANGLE, width, 360)
      focusLeftCol == CDiv(cropped.cols, 2) - CDiv(focusWidth, 2)
      focusRightCol == CDiv(cropped.cols, 2) + CDiv(focusWidth, 2)
      middle == ColRange(cropped, focusLeftCol, focusRightCol)
      focusHeight == DoubleMulTrunc(V_FOCUS_ANGLE, height, 180)
      focusMiddleRow == clamp(DoubleMulTrunc(vAng, height, 180),
                              CDiv(focusHeight, 2),
                              img.rows - CDiv(focusHeight, 2))
      focusTopRow == focusMiddleRow - CDiv(focusHeight, 2)
      focusBottomRow == focusMiddleRow + CDiv(focusHeight, 2)
      focused == RowRange(middle, focusTopRow, focusBottomRow)
      smallCols == CDiv(cropped.cols, BLUR_FACTOR)
      smallRows == CDiv(cropped.rows, BLUR_FACTOR)
      small == resize(cropped, smallCols, smallRows)
      blurred == resize(small, cropped.cols, cropped.rows)
  IN
  IF ~(H_FOCUS_ANGLE < CROP_ANGLE) THEN Fail("REQUIRES H_FOCUS_ANGLE < CROP_ANGLE")
  ELSE IF ~(0 <= leftCol) THEN Fail("ASSERT 0 <= leftCol")
  ELSE IF ~(leftCol < width) THEN Fail("ASSERT leftCol < width")
  ELSE IF ~(0 <= rightCol) THEN Fail("ASSERT 0 <= rightCol")
  ELSE IF ~(rightCol < width) THEN Fail("ASSERT rightCol < width")
  ELSE IF ~crop.ok THEN crop
  ELSE IF ~(0 <= focusLeftCol) THEN Fail("ASSERT 0 <= focusLeftCol")
  ELSE IF ~(focusLeftCol <= focusRightCol)
    THEN Fail("ASSERT focusLeftCol <= focusRightCol")
  ELSE IF ~(focusRightCol < cropped.cols)
    THEN Fail("ASSERT focusRightCol < cropped.cols")
  ELSE IF ~(0 <= focusTopRow /\ focusTopRow <= focusBottomRow
            /\ focusBottomRow <= middle.rows)
    THEN Fail("cv::Mat row range")
  ELSE IF smallCols <= 0 \/ smallRows <= 0 THEN Fail("cv::resize empty size")
  ELSE [ok |-> TRUE,
        opt |-> OptimizedImage(focused, blurred, focusTopRow, focusLeftCol,
                               Size(img), leftCol)]

----------------------------------------------------------------------------
(* Decoder *)

\* An embed whose black centre of the wrapped case leaves out fullLeft.
uncropWrapped_WideCenter(croppedImage, fullWidth, leftBuffer) ==
  LET numRows == croppedImage.rows
      rightEndExclusive == fullWidth - leftBuffer
      wrapRight == ColRange(croppedImage, 0, rightEndExclusive)
      wrapLeft == ColRange(croppedImage, rightEndExclusive, croppedImage.cols)
      centerCols == fullWidth - wrapRight.cols
      rightBufferCols == fullWidth - leftBuffer - croppedImage.cols
  IN
  IF croppedImage.cols + leftBuffer >= fullWidth
  THEN
    IF ~(0 <= rightEndExclusive /\ rightEndExclusive <= croppedImage.cols)
      THEN Fail("ASSERT 0 <= rightEndExclusive <= cols")
    ELSE IF ~(centerCols >= 0) THEN Fail("ASSERT centerCols >= 0")
    ELSE [ok |-> TRUE,
          mat |-> hconcat3(wrapLeft, Zeros(numRows, centerCols), wrapRight)]
  ELSE
    IF leftBuffer < 0 THEN Fail("cv::Mat negative cols")
    ELSE IF ~(rightBufferCols >= 0) THEN Fail("ASSERT rightBufferCols >= 0")
    ELSE [ok |-> TRUE,
          mat |-> hconcat3(Zeros(numRows, leftBuffer), croppedImage,
                           Zeros(numRows, rightBufferCols))]

uncropWrapped(croppedImage, fullWidth, leftBuffer) ==
  LET numRows == croppedImage.rows
      rightEndExclusive == fullWidth - leftBuffer
      wrapRight == ColRange(croppedImage, 0, rightEndExclusive)
      wrapLeft == ColRange(croppedImage, rightEndExclusive, croppedImage.cols)
      centerCols == fullWidth - wrapRight.cols - wrapLeft.cols
      rightBufferCols == fullWidth - leftBuffer - croppedImage.cols
  IN
  IF croppedImage.cols + leftBuffer >= fullWidth
  THEN \* cropped image wraps around: cropped_left + black + cropped_right
    IF ~(0 <= rightEndExclusive /\ rightEndExclusive <= croppedImage.cols)
      THEN Fail("ASSERT 0 <= rightEndExclusive <= cols")
    ELSE IF ~(centerCols >= 0) THEN Fail("ASSERT centerCols >= 0")
    ELSE [ok |-> TRUE,
          mat |-> hconcat3(wrapLeft, Zeros(numRows, centerCols), wrapRight)]
  ELSE \* cropped image fully contained: black_left + cropped + black_right
    IF leftBuffer < 0 THEN Fail("cv::Mat negative cols")
    ELSE IF ~(rightBufferCols >= 0) THEN Fail("ASSERT rightBufferCols >= 0")
    ELSE [ok |-> TRUE,
          mat |-> hconcat3(Zeros(numRows, leftBuffer), croppedImage,
                           Zeros(numRows, rightBufferCols))]

\* The result carries, besides the returned frame, the contents of the buffer
\* of optImage.blurred when the call ends: croppedImage = Mat(optImage.blurred)
\* is a second header on that buffer and tmp is a view into it.
extractImage(optImage) ==
  LET croppedBefore == optImage.blurred
      rowLo == optImage.focusRow
      rowHi == optImage.focusRow + optImage.focused.rows
      colLo == optImage.focusCol
      colHi == optImage.focusCol + optImage.focused.cols
      croppedImage == copyTo(croppedBefore, optImage.focused, rowLo, colLo)
      full == uncropWrapped(croppedImage, optImage.fullSize.width,
                            optImage.leftBuffer)
  IN
  IF ~(/\ 0 <= rowLo /\ rowLo <= rowHi /\ rowHi <= croppedBefore.rows
       /\ 0 <= colLo /\ colLo <= colHi /\ colHi <= croppedBefore.cols)
    THEN [ok |-> FALSE, err |-> "cv::Mat range", blurred |-> croppedBefore]
  ELSE IF ~full.ok
    THEN [ok |-> FALSE, err |-> full.err, blurred |-> croppedImage]
  ELSE IF ~(Size(full.mat) = optImage.fullSize)
    THEN [ok |-> FALSE, err |-> "ENSURES fullImage.size() == fullSize",
          blurred |-> croppedImage]
  ELSE [ok |-> TRUE, mat |-> full.mat, blurred |-> croppedImage]

----------------------------------------------------------------------------
(* Frame-rate profiler; times are integers in units of 1/TimeDen second *)

TimeDen == 2        \* clock resolution of the model: ticks per second
MaxFrameTime == 3   \* longest frame, in ticks
MaxFrames == 103    \* frames profiled in one run

\* ticksum and ticklist after profileFrame(frameTime); ticklist is an int
\* array, so the stored sample is the frame time truncated to whole seconds.
profileFrame(frameTime) ==
  [ticksum |-> ticksum - ticklist[tickindex] * TimeDen + frameTime,
   ticklist |-> [ticklist EXCEPT ![tickindex] = frameTime \div TimeDen],
   tickindex |-> (tickindex + 1) % MAX_SAMPLES,
   samplesCollected |-> IF samplesCollected < MAX_SAMPLES
                        THEN samplesCollected + 1 ELSE samplesCollected]

\* The frame rate in frames per second, as the fraction num/den.
getFramerate ==
  IF ticksum = 0 THEN [num |-> 0, den |-> 1]
  ELSE [num |-> samplesCollected * TimeDen, den |-> ticksum]

----------------------------------------------------------------------------
(* Inputs *)

Widths == 1..MaxW
Heights == 1..MaxH
Patterns == 0..MaxPattern
Angles == {k * AngleStep : k \in (0 - MaxTurn)..MaxTurn} \cup {360 + AngleStep}
VAngles == {-90, 45, 180, 270}

\* Pattern 0 is a gradient without black pixels, pattern 1 a coarser one
\* with black pixels.
Pixel(p, w, r, c) ==
  IF p = 0 THEN 1 + (((r * w + c) * 7) % 255)
  ELSE ((r * (p + 2) + c * (p + 3)) * 37) % 256

Panorama(p, w, h) ==
  [rows |-> h, cols |-> w,
   px |-> [r \in 0..(h - 1) |-> [c \in 0..(w - 1) |-> Pixel(p, w, r, c)]]]

ProfilerInit ==
  /\ tickindex = 0
  /\ ticksum = 0
  /\ ticklist = [i \in 0..(MAX_SAMPLES - 1) |-> 0]
  /\ samplesCollected = 0
  /\ frameStart = 0
  /\ now = 0
  /\ inFrame = FALSE
  /\ history = <<>>

CodecIdle ==
  /\ opt = NoOpt
  /\ out = NoMat
  /\ firstOut = NoMat
  /\ err = "none"
  /\ numDecodes = 0

Init ==
  /\ image \in {Panorama(p, w, h) : p \in Patterns, w \in Widths, h \in Heights}
  /\ angle \in Angles
  /\ vAngle \in VAngles
  /\ pc = "start"
  /\ CodecIdle
  /\ ProfilerInit

----------------------------------------------------------------------------
(* Operations of the codec *)

\* opt = optimizeImage(image, angle, vAngle)
Encode ==
  /\ pc = "start"
  /\ err = "none"
  /\ LET r == optimizeImage(image, angle, vAngle) IN
       IF r.ok
       THEN /\ opt' = r.opt
            /\ pc' = "encoded"
            /\ err' = "none"
       ELSE /\ opt' = opt
            /\ pc' = pc
            /\ err' = r.err
  /\ UNCHANGED <<image, angle, vAngle, out, firstOut, numDecodes, profVars>>

\* The caller builds an OptimizedImage of its own from the buffers of an
\* encoded one: opt = OptimizedImage(focused, blurred, focusRow, focusCol,
\* fullSize, leftBuffer).
Construct ==
  /\ pc = "encoded"
  /\ numDecodes = 0
  /\ \E focusRow \in {opt.focusRow, opt.blurred.rows - opt.focused.rows + 1},
        focusCol \in {opt.focusCol, opt.blurred.cols - opt.focused.cols + 1},
        leftBuffer \in {opt.leftBuffer, opt.fullSize.width,
                        opt.fullSize.width + 1} :
       \* one field differs from the encoder's
       /\ Cardinality({f \in {"focusRow", "focusCol", "leftBuffer"} :
             <<focusRow, focusCol, leftBuffer>>[
               CASE f = "focusRow" -> 1 [] f = "focusCol" -> 2 [] OTHER -> 3]
             # <<opt.focusRow, opt.focusCol, opt.leftBuffer>>[
               CASE f = "focusRow" -> 1 [] f = "focusCol" -> 2 [] OTHER -> 3]})
          = 1
       /\ opt' = OptimizedImage(opt.focused, opt.blurred, focusRow, focusCol,
                                opt.fullSize, leftBuffer)
  /\ pc' = "constructed"
  /\ UNCHANGED <<image, angle, vAngle, out, firstOut, err, numDecodes, profVars>>

\* out = extractImage(opt)
Decode ==
  /\ pc \in {"encoded", "constructed"}
  /\ err = "none"
  /\ numDecodes < MaxDecodes
  /\ LET r == extractImage(opt) IN
       /\ opt' = [opt EXCEPT !.blurred = r.blurred]
       /\ IF r.ok
          THEN /\ out' = r.mat
               /\ firstOut' = IF numDecodes = 0 THEN r.mat ELSE firstOut
               /\ err' = "none"
          ELSE /\ out' = NoMat
               /\ firstOut' = firstOut
               /\ err' = r.err
  /\ pc' = pc
  /\ numDecodes' = numDecodes + 1
  /\ UNCHANGED <<image, angle, vAngle, profVars>>

Next == Encode \/ Construct \/ Decode

Spec == Init /\ [][Next]_vars

----------------------------------------------------------------------------
(* Operations of the profiler *)

FrameTimes == 1..MaxFrameTime

\* A run changes pace at most once: every frame takes as long as the one
\* before it, unless all the frames so far took the same time.
SamePace(d) ==
  IF history = <<>> THEN TRUE
  ELSE IF d = history[Len(history)] THEN TRUE
  ELSE \A i \in 1..Len(history) : history[i] = history[1]

startFrame ==
  /\ ~inFrame
  /\ Len(history) < MaxFrames
  /\ frameStart' = now
  /\ inFrame' = TRUE
  /\ UNCHANGED <<tickindex, ticksum, ticklist, samplesCollected, now, history,
                 codecVars>>

\* The frame takes d ticks of the clock, then finishFrame() records it.
finishFrame ==
  /\ inFrame
  /\ \E d \in FrameTimes :
       /\ SamePace(d)
       /\ now' = now + d
       /\ LET p == profileFrame(now' - frameStart) IN
            /\ ticksum' = p.ticksum
            /\ ticklist' = p.ticklist
            /\ tickindex' = p.tickindex
            /\ samplesCollected' = p.samplesCollected
       /\ history' = Append(history, now' - frameStart)
  /\ inFrame' = FALSE
  /\ UNCHANGED <<frameStart, codecVars>>

InitProfiler ==
  /\ image = NoMat
  /\ angle = 0
  /\ vAngle = 0
  /\ pc = "idle"
  /\ CodecIdle
  /\ ProfilerInit

NextProfiler == startFrame \/ finishFrame

SpecProfiler == InitProfiler /\ [][NextProfiler]_vars

----------------------------------------------------------------------------
(* Properties of the codec, checked under Spec *)

W == image.cols
H == image.rows

\* extractImage has returned a frame for an OptimizedImage made by optimizeImage
RoundTripped == pc = "encoded" /\ numDecodes >= 1 /\ err = "none"

\* Column of the panorama that column k of the wide crop maps to.
PanoramaCol(k) == (opt.leftBuffer + k) % W

FoveaRows == 0..(opt.focused.rows - 1)
FoveaCols == 0..(opt.focused.cols - 1)

\* The wide crop straddles column 0 of the panorama.
Wrapped == opt.leftBuffer + opt.blurred.cols >= W

\* C1: after a round trip every pixel of the foveal rectangle, mapped back to
\* the panorama through leftBuffer, equals the source pixel.
C1_FovealFidelity ==
  RoundTripped =>
    \A i \in FoveaRows, j \in FoveaCols :
      out.px[opt.focusRow + i][PanoramaCol(opt.focusCol + j)]
        = image.px[opt.focusRow + i][PanoramaCol(opt.focusCol + j)]

\* A round trip whose non-empty fovea straddles column 0 of the panorama.
C1_Witness ==
  /\ RoundTripped
  /\ Wrapped
  /\ opt.focused.rows > 0
  /\ \E j \in FoveaCols : opt.leftBuffer + opt.focusCol + j = W - 1
  /\ \E j \in FoveaCols : opt.leftBuffer + opt.focusCol + j = W

\* C2: after a round trip every pixel in a column outside the wide crop
\* window is zero.
C2_OutOfViewBlack ==
  RoundTripped =>
    \A r \in 0..(out.rows - 1), c \in 0..(out.cols - 1) :
      ((c - opt.leftBuffer) % W >= opt.blurred.cols) => out.px[r][c] = 0

\* A round trip of a wrapped crop that blacks out a column whose source
\* pixels are not black.
C2_Witness ==
  /\ RoundTripped
  /\ Wrapped
  /\ \E r \in 0..(H - 1), c \in 0..(W - 1) :
       /\ (c - opt.leftBuffer) % W >= opt.blurred.cols
       /\ image.px[r][c] # 0
       /\ out.px[r][c] = 0

\* C3: extractImage of an encoder-made OptimizedImage never fails and
\* returns a frame with the width and height of the panorama.
C3_DimensionPreserved ==
  (pc = "encoded" /\ numDecodes >= 1) =>
    /\ err = "none"
    /\ out.cols = W
    /\ out.rows = H

\* A round trip through the contained branch with black on both sides.
C3_Witness ==
  /\ RoundTripped
  /\ ~Wrapped
  /\ opt.leftBuffer > 0
  /\ opt.leftBuffer + opt.blurred.cols < W
  /\ out.cols = W

\* C4: extractImage leaves its argument as it was, and no call changes the
\* panorama.
C4_ArgumentsUnchanged ==
  [][(numDecodes' # numDecodes => opt' = opt) /\ image' = image]_vars

\* C5: every OptimizedImage returned by optimizeImage is well-formed.
C5_WellFormed ==
  pc = "encoded" =>
    /\ 0 <= opt.focusCol
    /\ opt.focusCol + opt.focused.cols <= opt.blurred.cols
    /\ 0 <= opt.focusRow
    /\ opt.focusRow + opt.focused.rows <= opt.blurred.rows
    /\ opt.blurred.cols <= W
    /\ opt.blurred.rows <= H
    /\ 0 <= opt.leftBuffer
    /\ opt.leftBuffer < W

\* An encoded image with a non-empty tile strictly inside a crop narrower
\* than the panorama.
C5_Witness ==
  /\ pc = "encoded"
  /\ opt.focused.cols > 0
  /\ opt.focused.rows > 0
  /\ opt.focusCol > 0
  /\ opt.blurred.cols < W
  /\ opt.leftBuffer > 0

\* floor(V_FOCUS_ANGLE * H / 180)
FocusHeight == (V_FOCUS_ANGLE * H) \div 180

\* C6 as stated: the produced focusRow and focusRow + focusHeight lie in
\* [0, H].
C6_VerticalClampStated ==
  pc = "encoded" => 0 <= opt.focusRow /\ opt.focusRow + FocusHeight <= H

\* C6: for every vAngle the vertical range of the tile is accepted, and the
\* produced focusRow satisfies 0 <= focusRow and
\* focusRow + 2 * floor(focusHeight / 2) <= H, the height of the tile being
\* 2 * floor(focusHeight / 2).
C6_VerticalClamp ==
  /\ err # "cv::Mat row range"
  /\ pc = "encoded" =>
       /\ 0 <= opt.focusRow
       /\ opt.focused.rows = 2 * (FocusHeight \div 2)
       /\ opt.focusRow + 2 * (FocusHeight \div 2) <= H

\* A gaze below the panorama (vAngle > 180) whose non-empty tile has slid up
\* to end at the last row.
C6_Witness ==
  /\ pc = "encoded"
  /\ vAngle > 180
  /\ opt.focused.rows > 0
  /\ opt.focusRow + opt.focused.rows = H

\* The metadata of opt places the tile outside blurred, or leftBuffer is not
\* a column of the panorama.
Malformed ==
  \/ opt.leftBuffer >= opt.fullSize.width
  \/ opt.focusRow < 0
  \/ opt.focusCol < 0
  \/ opt.focusRow + opt.focused.rows > opt.blurred.rows
  \/ opt.focusCol + opt.focused.cols > opt.blurred.cols

\* C7: extractImage of an OptimizedImage with malformed metadata fails with a
\* contract violation and returns no frame.
C7_DecodeRejectsMalformed ==
  (pc = "constructed" /\ numDecodes >= 1 /\ Malformed) =>
    (err # "none" /\ out = NoMat)

\* C8: optimizeImage of a non-empty panorama fails no check.
C8_EncodeNeverFails == pc = "start" => err = "none"

\* C10: every extractImage of an encoder-made OptimizedImage returns the
\* frame the first one returned.
C10_RepeatedDecodeStable == RoundTripped => out = firstOut

\* A second extractImage of the same OptimizedImage, whose first one
\* overwrote pixels of blurred with different ones of the tile.
C10_Witness ==
  /\ RoundTripped
  /\ numDecodes >= 2
  /\ \E i \in FoveaRows, j \in FoveaCols :
       out.px[opt.focusRow + i][PanoramaCol(opt.focusCol + j)]
         # resize(resize(cropHorizontallyWrapped(image, opt.leftBuffer,
                    (opt.leftBuffer + opt.blurred.cols) % W).mat,
                    opt.blurred.cols \div BLUR_FACTOR, H \div BLUR_FACTOR),
                  opt.blurred.cols, H).px[opt.focusRow + i][opt.focusCol + j]

----------------------------------------------------------------------------
(* Properties of the profiler, checked under SpecProfiler *)

RECURSIVE SumLast(_, _)
\* Sum of the last k elements of the sequence h.
SumLast(h, k) ==
  IF k = 0 THEN 0 ELSE h[Len(h)] + SumLast(SubSeq(h, 1, Len(h) - 1), k - 1)

\* C9: after n recorded frames getFramerate returns min(n, MAX_SAMPLES)
\* divided by the sum of the latest min(n, MAX_SAMPLES) frame times, and 0
\* when no frame has been recorded.
C9_RollingWindowRate ==
  LET n == Len(history)
      k == Min(n, MAX_SAMPLES)
      rate == getFramerate
  IN IF n = 0 THEN rate.num = 0
     ELSE rate.num * SumLast(history, k) = k * TimeDen * rate.den

====
